---- MODULE Spec2Model ----
(***************************************************************************)
(* Solar-system N-body simulation: the block partition of the bodies over  *)
(* the MPI ranks, the distributed integration loops (mpi-implementation.py *)
(* and mpi-benchmark.py), rank 0's lock-guarded GUI buffers, and the       *)
(* single-process loop with the rocket's flight plan                       *)
(* (default-implementation.py).                                            *)
(*                                                                         *)
(* Numbers: the sources compute in float64.  Here positions, velocities,   *)
(* forces and masses are integers in model units and every division is an  *)
(* integer division truncated towards zero (Quot).  Vectors keep the x and *)
(* y components; the z component is 0 in all initial data of the sources   *)
(* and stays 0 under their updates.                                        *)
(***************************************************************************)
EXTENDS Integers, Sequences, FiniteSets, TLC

VARIABLES
    \* ---- partition (module level of both MPI programs)
    N,          \* number of bodies, len(planet_data)
    size,       \* comm.Get_size()
    counts,     \* counts[r], r in 0..size-1
    starts,     \* starts[r]
    ppc,        \* position in the partition code: "counts", "starts", "done"
    \* ---- the distributed programs; every array is per rank (own address space)
    variant,        \* "mpi" (mpi-implementation.py) or "bench" (mpi-benchmark.py)
    masses,         \* masses[i]
    positions,      \* positions[r][i]
    velocities,     \* velocities[r][i]
    forces,         \* forces[r][i]: the receive buffer of the Allreduce
    forces_local,   \* forces_local[r][i] / floc: the send buffer
    pc,             \* pc[r]: position of rank r's main (physics) thread
    loop,           \* benchmark: the loop rank r is in, "warm" or "meas"
    steps,          \* steps[r]: completed iterations / step() calls of rank r
    ncoll,          \* ncoll[r]: collectives rank r has called on COMM_WORLD
    sendbuf,        \* sendbuf[r][k % 3]: what rank r passed to its k-th collective
    log,            \* log[r][k+1]: rank r's arrays when it completed step k
    \* ---- rank 0 of mpi-implementation.py: GUI buffers and the GUI thread
    lock,           \* holder of threading.Lock: "free", "physics" or "gui"
    gui_pos,        \* shared position buffer
    gui_fps,        \* gui_fps[0]
    steps_1s,       \* steps since the last publication
    gpc,            \* position of the GUI thread
    spheres,        \* rows read so far for the sphere list / shown positions
    pos_cp,         \* the GUI thread's copy of gui_pos
    fps_now,        \* the GUI thread's copy of gui_fps[0]
    gui_pos_pub,    \* history: step whose positions gui_pos holds
    gui_fps_pub,    \* history: step at which gui_fps was written
    read_pub,       \* history: <<gui_pos_pub, gui_fps_pub>> seen by the last read,
                    \* and the gui_pos_pub seen by the read before it
    \* ---- default-implementation.py: single process, planets and a rocket
    body_mass,      \* b.mass for b in bodies
    body_pos,       \* b.pos (in units of scale)
    body_vel,       \* b.velocity
    rocket,         \* [pos, velocity, mass] of the rocket
    flight_plan,    \* sequence of [start_time, duration, acceleration]
    flight_index,   \* cursor into flight_plan (0-based)
    time_passed,    \* simulated time
    rocket_acc,     \* [grav, total]: forces[-1] / rocket.mass, and rocket_acc as
                    \* used for the velocity update, in the last step
    status,         \* "running", or "crashed" once an exception has ended the loop
    burned,         \* history: phases whose acceleration the last step added
    ended           \* history: phases k with an executed step at or after their end

partVars == <<N, size, counts, starts, ppc>>

mpiVars == <<variant, masses, positions, velocities, forces, forces_local, pc, loop,
             steps, ncoll, sendbuf, log>>

guiVars == <<lock, gui_pos, gui_fps, steps_1s, gpc, spheres, pos_cp, fps_now,
             gui_pos_pub, gui_fps_pub, read_pub>>

defVars == <<body_mass, body_pos, body_vel, rocket, flight_plan, flight_index,
             time_passed, rocket_acc, status, burned, ended>>

vars == <<partVars, mpiVars, guiVars, defVars>>

----------------------------------------------------------------------------
(* Bounds *)

MaxPartN == 7
MaxPartW == 8
MaxN == 3
MaxW == 2
MaxSteps == 2
MaxBodies == 4
MaxTime == 80

----------------------------------------------------------------------------
(* Program constants, in model units *)

G == 6          \* gravitational constant
DT == 2         \* physics step of the MPI programs: 60 * 2 s = 2 min
SunMass == 16   \* planet_data[0]; body i > 0 has mass i
dt == 2         \* step of the single-process program: 60 * 60 * 2 s = 2 h
scale == 2      \* length unit of the single-process program's positions
Earth == 3      \* index of "Earth" in planet_data
InitialMass == 5    \* rocket.initial_mass (1e5 kg)
DryMass == 1        \* rocket.dry_mass (1e5 kg)
RocketOffset == 1   \* 1e7 / scale: the rocket starts next to Earth

----------------------------------------------------------------------------
(* Integer helpers *)

Abs(a) == IF a < 0 THEN -a ELSE a

\* float division, truncated towards zero
Quot(a, b) == IF (a < 0) = (b < 0) THEN Abs(a) \div Abs(b) ELSE -(Abs(a) \div Abs(b))

Max(a, b) == IF a >= b THEN a ELSE b

RECURSIVE SumTo(_, _)
\* f[0] + ... + f[k-1]
SumTo(f, k) == IF k <= 0 THEN 0 ELSE f[k - 1] + SumTo(f, k - 1)

----------------------------------------------------------------------------
(* Partitioner: counts / starts / local *)

\* a block gets the extra element when its rank is <= N % size (one too many)
CountsOffByOne(n, w) == [r \in 0 .. w - 1 |-> (n \div w) + (IF r <= n % w THEN 1 ELSE 0)]

\* counts = np.full(size, N//size); counts[:N % size] += 1
Counts(n, w) == [r \in 0 .. w - 1 |-> (n \div w) + (IF r < n % w THEN 1 ELSE 0)]

\* starts = np.insert(np.cumsum(counts)[:-1], 0, 0)
Starts(c, w) == [r \in 0 .. w - 1 |-> SumTo(c, r)]

\* local = slice(starts[rank], starts[rank] + counts[rank])
LocalStart(r) == starts[r]
LocalStop(r) == starts[r] + counts[r]
Local(r) == {i \in 0 .. N - 1 : LocalStart(r) <= i /\ i < LocalStop(r)}

\* the single-process program is not part of the run
NoDefault ==
    /\ body_mass = <<>> /\ body_pos = <<>> /\ body_vel = <<>> /\ rocket = <<>>
    /\ flight_plan = <<>> /\ flight_index = 0 /\ time_passed = 0
    /\ rocket_acc = <<>> /\ status = "none" /\ burned = {} /\ ended = {}

InitPartition ==
    /\ N \in 1 .. MaxPartN
    /\ size \in 1 .. MaxPartW
    /\ counts = <<>>
    /\ starts = <<>>
    /\ ppc = "counts"
    /\ variant = "none"
    /\ masses = <<>> /\ positions = <<>> /\ velocities = <<>> /\ forces = <<>>
    /\ forces_local = <<>> /\ pc = <<>> /\ loop = <<>> /\ steps = <<>>
    /\ ncoll = <<>> /\ sendbuf = <<>> /\ log = <<>>
    /\ lock = "free" /\ gui_pos = <<>> /\ gui_fps = 0 /\ steps_1s = 0
    /\ gpc = "none" /\ spheres = <<>> /\ pos_cp = <<>> /\ fps_now = 0
    /\ gui_pos_pub = 0 /\ gui_fps_pub = 0 /\ read_pub = <<0, 0, 0>>
    /\ NoDefault

ComputeCounts ==
    /\ ppc = "counts"
    /\ counts' = Counts(N, size)
    /\ ppc' = "starts"
    /\ UNCHANGED <<N, size, starts, mpiVars, guiVars, defVars>>

ComputeStarts ==
    /\ ppc = "starts"
    /\ starts' = Starts(counts, size)
    /\ ppc' = "done"
    /\ UNCHANGED <<N, size, counts, mpiVars, guiVars, defVars>>

NextPartition == ComputeCounts \/ ComputeStarts

SpecPartition == InitPartition /\ [][NextPartition]_vars

----------------------------------------------------------------------------
(* Vectors and body arrays *)

Zero == <<0, 0>>
VAdd(a, b) == <<a[1] + b[1], a[2] + b[2]>>
VSub(a, b) == <<a[1] - b[1], a[2] - b[2]>>
VScale(k, a) == <<k * a[1], k * a[2]>>
VQuot(a, d) == <<Quot(a[1], d), Quot(a[2], d)>>
Dot(a, b) == a[1] * b[1] + a[2] * b[2]

Bodies(n) == 0 .. n - 1
Ranks == 0 .. size - 1
ZeroArray(n) == [i \in Bodies(n) |-> Zero]

RECURSIVE VSum(_, _)
\* sum of the rows a[0] .. a[n-1]
VSum(a, n) == IF n <= 0 THEN Zero ELSE VAdd(a[n - 1], VSum(a, n - 1))

RECURSIVE ISqrtIn(_, _, _)
\* the k with k * k <= x < (k + 1) * (k + 1), given lo * lo <= x < hi * hi
ISqrtIn(x, lo, hi) ==
    IF hi - lo <= 1 THEN lo
    ELSE LET mid == (lo + hi) \div 2
         IN  IF mid <= x \div mid THEN ISqrtIn(x, mid, hi) ELSE ISqrtIn(x, lo, mid)
\* integer part of the square root
ISqrt(x) == ISqrtIn(x, 0, x + 1)

----------------------------------------------------------------------------
(* Body data: planet_data and the arrays built from it.  Body 0 is the     *)
(* heavy central body at rest at the origin; body i > 0 starts at distance *)
(* 2i on one of the two axes ("cross"), or on the x axis sharing its start *)
(* with a neighbour ("pairs"), with speed i at a right angle.              *)

Layouts == {"cross", "pairs"}

BodyMass(i) == IF i = 0 THEN SunMass ELSE i

BodyPos(lay, i) ==
    CASE lay = "cross" -> IF i % 2 = 0 THEN <<2 * i, 0>> ELSE <<0, 2 * i>>
      [] lay = "pairs" -> <<2 * ((i + 1) \div 2), 0>>

BodyVel(lay, i) ==
    CASE lay = "cross" -> IF i % 2 = 0 THEN <<0, i>> ELSE <<-i, 0>>
      [] lay = "pairs" -> <<0, i>>

InitMasses(n) == [i \in Bodies(n) |-> BodyMass(i)]
InitPositions(lay, n) == [i \in Bodies(n) |-> BodyPos(lay, i)]
RawVelocities(lay, n) == [i \in Bodies(n) |-> BodyVel(lay, i)]

\* velocities -= np.sum(masses[:, None] * velocities, axis=0) / masses.sum()
ZeroMomentum(m, v, n) ==
    LET mom == VSum([i \in Bodies(n) |-> VScale(m[i], v[i])], n)
        drift == VQuot(mom, SumTo(m, n))
    IN  [i \in Bodies(n) |-> VSub(v[i], drift)]

----------------------------------------------------------------------------
(* ForceEvaluator of the MPI programs *)

\* rij * coef for one j: zero where dist2 > 0 fails (the mask)
PairForce(p, m, i, j) ==
    LET rij == VSub(p[j], p[i])
        dist2 == Dot(rij, rij)
    IN  IF dist2 > 0
        THEN VQuot(VScale(G * m[i] * m[j], rij), dist2 * ISqrt(dist2))
        ELSE Zero

\* (rij * coef[:, None]).sum(axis=0)
NetForce(p, m, i, n) == VSum([j \in Bodies(n) |-> PairForce(p, m, i, j)], n)

\* rows outside [lo, hi) are filled too
PartialForcesAllRows(p, m, lo, hi, n) == [i \in Bodies(n) |-> NetForce(p, m, i, n)]

\* forces_local = zeros; for i in range(local.start, local.stop): forces_local[i] = ...
PartialForces(p, m, lo, hi, n) ==
    [i \in Bodies(n) |-> IF lo <= i /\ i < hi THEN NetForce(p, m, i, n) ELSE Zero]

\* v += 0.5 * (forces / m[:, None]) * DT
HalfKick(v, f, m, n) == [i \in Bodies(n) |-> VAdd(v[i], VQuot(VScale(DT, f[i]), 2 * m[i]))]

\* p += v * DT
Drift(p, v, n) == [i \in Bodies(n) |-> VAdd(p[i], VScale(DT, v[i]))]

Snapshot(p, v, f) == [p |-> p, v |-> v, f |-> f]

----------------------------------------------------------------------------
(* MPI collectives on COMM_WORLD.  The k-th collective a rank calls         *)
(* matches the k-th collective of every other rank.                        *)
(* A rank is at most two collectives ahead of the slowest rank (a gather   *)
(* returns on a non-root rank without waiting), so three slots per rank   *)
(* hold every contribution still needed.                                   *)

Slot(k) == k % 3

\* the call returns without waiting for the other ranks
MatchedAlone(r) == r \in Ranks

\* rank r's pending collective can complete: every rank has called it,
\* and called the same operation
Matched(r) ==
    \A s \in Ranks :
        /\ ncoll[s] >= ncoll[r]
        /\ sendbuf[s][Slot(ncoll[r])].op = sendbuf[r][Slot(ncoll[r])].op

\* no reduction: the caller gets its own send buffer back
ReduceSumOwn(r) == sendbuf[r][Slot(ncoll[r])].data

\* op=MPI.SUM over the ranks' send buffers of rank r's pending Allreduce
ReduceSum(r) ==
    [i \in Bodies(N) |->
        VSum([s \in Ranks |-> sendbuf[s][Slot(ncoll[r])].data[i]], size)]

Call(r, op, data) ==
    /\ ncoll' = [ncoll EXCEPT ![r] = @ + 1]
    /\ sendbuf' = [sendbuf EXCEPT ![r][Slot(ncoll[r] + 1)] = [op |-> op, data |-> data]]

----------------------------------------------------------------------------
(* Start of the distributed programs: the state when the module-level code  *)
(* has run (arrays, zero-momentum frame, partition, rank 0's GUI buffers)   *)
(* and the main thread is about to enter physics_loop() or the warm-up loop *)

\* a slot no call has filled yet
NoMessage == [op |-> "none", data |-> ZeroArray(N)]

InitRanks(prog) ==
    /\ variant = prog
    /\ N \in 1 .. MaxN
    /\ size \in 1 .. MaxW
    /\ counts = Counts(N, size)
    /\ starts = Starts(counts, size)
    /\ ppc = "done"
    /\ masses = InitMasses(N)
    /\ \E lay \in Layouts :
          /\ positions = [r \in Ranks |-> InitPositions(lay, N)]
          /\ velocities = [r \in Ranks |->
                              ZeroMomentum(masses, RawVelocities(lay, N), N)]
    /\ forces = [r \in Ranks |-> ZeroArray(N)]
    /\ forces_local = [r \in Ranks |-> ZeroArray(N)]
    /\ pc = [r \in Ranks |-> IF variant = "mpi" THEN "forces1" ELSE "warm"]
    /\ loop = [r \in Ranks |-> IF variant = "mpi" THEN "none" ELSE "warm"]
    /\ steps = [r \in Ranks |-> 0]
    /\ ncoll = [r \in Ranks |-> 0]
    /\ sendbuf = [r \in Ranks |-> [k \in 0 .. 2 |-> NoMessage]]
    /\ log = [r \in Ranks |-> <<Snapshot(positions[r], velocities[r], forces[r])>>]
    /\ lock = "free"
    /\ gui_pos = IF variant = "mpi" THEN positions[0] ELSE <<>>
    /\ gui_fps = 0
    /\ steps_1s = 0
    /\ gpc = IF variant = "mpi" THEN "build" ELSE "none"
    /\ spheres = <<>>
    /\ pos_cp = <<>>
    /\ fps_now = 0
    /\ gui_pos_pub = 0
    /\ gui_fps_pub = 0
    /\ read_pub = <<0, 0, 0>>
    /\ NoDefault

InitMPI == InitRanks("mpi") \/ InitRanks("bench")

----------------------------------------------------------------------------
(* comm.Allreduce(forces_local, forces, op=MPI.SUM): a blocking call        *)

AfterReturn(p) ==
    CASE p = "wait1" -> "kick_drift"
      [] p = "wait2" -> "kick2"
      [] p = "wait" -> "step_end"

\* the call: the send buffer is handed to the k-th collective of rank r
AllreduceCall(r, send) == Call(r, "allreduce", send)

\* the return: every rank has called; the receive buffer holds the sum
AllreduceReturn(r) ==
    /\ pc[r] \in {"wait1", "wait2", "wait"}
    /\ Matched(r)
    /\ forces' = [forces EXCEPT ![r] = ReduceSum(r)]
    /\ pc' = [pc EXCEPT ![r] = AfterReturn(pc[r])]
    /\ UNCHANGED <<partVars, variant, masses, positions, velocities, forces_local,
                   loop, steps, ncoll, sendbuf, log, guiVars, defVars>>

----------------------------------------------------------------------------
(* mpi-implementation.py: physics_loop, one action per stretch of local     *)
(* code between blocking calls                                              *)

\* lines 68-78: partial forces at the current positions; Allreduce called
ForcesFirst(r) ==
    /\ pc[r] = "forces1"
    /\ steps[r] < MaxSteps
    /\ LET floc == PartialForces(positions[r], masses, LocalStart(r), LocalStop(r), N)
       IN  /\ forces_local' = [forces_local EXCEPT ![r] = floc]
           /\ AllreduceCall(r, floc)
    /\ pc' = [pc EXCEPT ![r] = "wait1"]
    /\ UNCHANGED <<partVars, variant, masses, positions, velocities, forces, loop,
                   steps, log, guiVars, defVars>>

\* lines 81-94: half kick, drift, partial forces at the new positions;
\* Allreduce called
KickDriftForces(r) ==
    /\ pc[r] = "kick_drift"
    /\ LET v1 == HalfKick(velocities[r], forces[r], masses, N)
           p1 == Drift(positions[r], v1, N)
           floc == PartialForces(p1, masses, LocalStart(r), LocalStop(r), N)
       IN  /\ velocities' = [velocities EXCEPT ![r] = v1]
           /\ positions' = [positions EXCEPT ![r] = p1]
           /\ forces_local' = [forces_local EXCEPT ![r] = floc]
           /\ AllreduceCall(r, floc)
    /\ pc' = [pc EXCEPT ![r] = "wait2"]
    /\ UNCHANGED <<partVars, variant, masses, forces, loop, steps, log, guiVars, defVars>>

\* lines 95-97: second half kick; the iteration's physics is complete
KickSecond(r) ==
    /\ pc[r] = "kick2"
    /\ LET v2 == HalfKick(velocities[r], forces[r], masses, N)
       IN  /\ velocities' = [velocities EXCEPT ![r] = v2]
           /\ log' = [log EXCEPT ![r] = Append(@, Snapshot(positions[r], v2, forces[r]))]
    /\ steps' = [steps EXCEPT ![r] = @ + 1]
    /\ pc' = [pc EXCEPT ![r] = IF r = 0 THEN "bookkeep" ELSE "forces1"]
    /\ UNCHANGED <<partVars, variant, masses, positions, forces, forces_local, loop,
                   ncoll, sendbuf, guiVars, defVars>>

\* lines 100-104 on rank 0: count the step; the wall clock decides whether
\* a second has passed since the last publication
Bookkeep ==
    /\ pc[0] = "bookkeep"
    /\ steps_1s' = steps_1s + 1
    /\ \E second_passed \in BOOLEAN :
          pc' = [pc EXCEPT ![0] = IF second_passed THEN "lock_fps" ELSE "forces1"]
    /\ UNCHANGED <<partVars, variant, masses, positions, velocities, forces,
                   forces_local, loop, steps, ncoll, sendbuf, log, lock, gui_pos,
                   gui_fps, gpc, spheres, pos_cp, fps_now, gui_pos_pub, gui_fps_pub,
                   read_pub, defVars>>

\* line 105: with lock (acquire)
PublishFpsLock ==
    /\ pc[0] = "lock_fps"
    /\ lock = "free"
    /\ lock' = "physics"
    /\ pc' = [pc EXCEPT ![0] = "write_fps"]
    /\ UNCHANGED <<partVars, variant, masses, positions, velocities, forces,
                   forces_local, loop, steps, ncoll, sendbuf, log, gui_pos, gui_fps,
                   steps_1s, gpc, spheres, pos_cp, fps_now, gui_pos_pub, gui_fps_pub,
                   read_pub, defVars>>

\* lines 106-107: gui_fps[0] = steps_1s / elapsed (elapsed taken as one time
\* unit); release; steps_1s = 0
PublishFpsWrite ==
    /\ pc[0] = "write_fps"
    /\ gui_fps' = steps_1s
    /\ gui_fps_pub' = steps[0]
    /\ lock' = "free"
    /\ steps_1s' = 0
    /\ pc' = [pc EXCEPT ![0] = "lock_pos"]
    /\ UNCHANGED <<partVars, variant, masses, positions, velocities, forces,
                   forces_local, loop, steps, ncoll, sendbuf, log, gui_pos, gpc,
                   spheres, pos_cp, fps_now, gui_pos_pub, read_pub, defVars>>

\* line 108: with lock (acquire)
PublishPosLock ==
    /\ pc[0] = "lock_pos"
    /\ lock = "free"
    /\ lock' = "physics"
    /\ pc' = [pc EXCEPT ![0] = "write_pos"]
    /\ UNCHANGED <<partVars, variant, masses, positions, velocities, forces,
                   forces_local, loop, steps, ncoll, sendbuf, log, gui_pos, gui_fps,
                   steps_1s, gpc, spheres, pos_cp, fps_now, gui_pos_pub, gui_fps_pub,
                   read_pub, defVars>>

\* the lock is still held when the iteration's bookkeeping ends
PublishPosWriteNoRelease ==
    /\ pc[0] = "write_pos"
    /\ gui_pos' = positions[0]
    /\ gui_pos_pub' = steps[0]
    /\ lock' = lock
    /\ pc' = [pc EXCEPT ![0] = "forces1"]
    /\ UNCHANGED <<partVars, variant, masses, positions, velocities, forces,
                   forces_local, loop, steps, ncoll, sendbuf, log, gui_fps, steps_1s,
                   gpc, spheres, pos_cp, fps_now, gui_fps_pub, read_pub, defVars>>

\* line 109: gui_pos[:] = positions; release
PublishPosWrite ==
    /\ pc[0] = "write_pos"
    /\ gui_pos' = positions[0]
    /\ gui_pos_pub' = steps[0]
    /\ lock' = "free"
    /\ pc' = [pc EXCEPT ![0] = "forces1"]
    /\ UNCHANGED <<partVars, variant, masses, positions, velocities, forces,
                   forces_local, loop, steps, ncoll, sendbuf, log, gui_fps, steps_1s,
                   gpc, spheres, pos_cp, fps_now, gui_fps_pub, read_pub, defVars>>

----------------------------------------------------------------------------
(* mpi-implementation.py: gui_thread on rank 0 *)

\* lines 136-140: one element of the sphere list; reads gui_pos[i], no lock
GuiBuildSphere ==
    /\ gpc = "build"
    /\ spheres' = Append(spheres, gui_pos[Len(spheres)])
    /\ gpc' = IF Len(spheres) + 1 = N THEN "rate" ELSE "build"
    /\ UNCHANGED <<partVars, mpiVars, lock, gui_pos, gui_fps, steps_1s, pos_cp,
                   fps_now, gui_pos_pub, gui_fps_pub, read_pub, defVars>>

\* lines 143-144: rate(RENDER_FPS); with lock (acquire)
GuiLock ==
    /\ gpc = "rate"
    /\ lock = "free"
    /\ lock' = "gui"
    /\ gpc' = "copy"
    /\ UNCHANGED <<partVars, mpiVars, gui_pos, gui_fps, steps_1s, spheres, pos_cp,
                   fps_now, gui_pos_pub, gui_fps_pub, read_pub, defVars>>

\* line 145: pos_cp = gui_pos.copy(); fps_now = gui_fps[0]; release
GuiCopy ==
    /\ gpc = "copy"
    /\ pos_cp' = gui_pos
    /\ fps_now' = gui_fps
    /\ read_pub' = <<gui_pos_pub, gui_fps_pub, read_pub[1]>>
    /\ lock' = "free"
    /\ gpc' = "render"
    /\ UNCHANGED <<partVars, mpiVars, gui_pos, gui_fps, steps_1s, spheres,
                   gui_pos_pub, gui_fps_pub, defVars>>

\* lines 146-148: move the spheres to the copied positions
GuiRender ==
    /\ gpc = "render"
    /\ spheres' = [i \in 1 .. N |-> pos_cp[i - 1]]
    /\ gpc' = "rate"
    /\ UNCHANGED <<partVars, mpiVars, lock, gui_pos, gui_fps, steps_1s, pos_cp,
                   fps_now, gui_pos_pub, gui_fps_pub, read_pub, defVars>>

----------------------------------------------------------------------------
(* mpi-benchmark.py: step() and the two wall-clock loops around it *)

\* line 68: while MPI.Wtime() < warm_end (this rank's own clock decides)
WarmLoop(r) ==
    /\ pc[r] = "warm"
    /\ \/ /\ steps[r] < MaxSteps
          /\ pc' = [pc EXCEPT ![r] = "step"]
          /\ loop' = loop
       \/ /\ pc' = [pc EXCEPT ![r] = "meas"]
          /\ loop' = [loop EXCEPT ![r] = "meas"]
    /\ UNCHANGED <<partVars, variant, masses, positions, velocities, forces,
                   forces_local, steps, ncoll, sendbuf, log, guiVars, defVars>>

\* line 75: while MPI.Wtime() < bench_end
MeasLoop(r) ==
    /\ pc[r] = "meas"
    /\ \/ /\ steps[r] < MaxSteps
          /\ pc' = [pc EXCEPT ![r] = "step"]
       \/ pc' = [pc EXCEPT ![r] = "gather"]
    /\ UNCHANGED <<partVars, variant, masses, positions, velocities, forces,
                   forces_local, loop, steps, ncoll, sendbuf, log, guiVars, defVars>>

\* lines 53-59: half kick with the forces array as it is, drift, partial
\* forces at the new positions; Allreduce called
StepBegin(r) ==
    /\ pc[r] = "step"
    /\ LET v1 == HalfKick(velocities[r], forces[r], masses, N)
           p1 == Drift(positions[r], v1, N)
           floc == PartialForces(p1, masses, LocalStart(r), LocalStop(r), N)
       IN  /\ velocities' = [velocities EXCEPT ![r] = v1]
           /\ positions' = [positions EXCEPT ![r] = p1]
           /\ forces_local' = [forces_local EXCEPT ![r] = floc]
           /\ AllreduceCall(r, floc)
    /\ pc' = [pc EXCEPT ![r] = "wait"]
    /\ UNCHANGED <<partVars, variant, masses, forces, loop, steps, log, guiVars, defVars>>

\* line 60: second half kick; step() returns to the loop that called it
StepEnd(r) ==
    /\ pc[r] = "step_end"
    /\ LET v2 == HalfKick(velocities[r], forces[r], masses, N)
       IN  /\ velocities' = [velocities EXCEPT ![r] = v2]
           /\ log' = [log EXCEPT ![r] = Append(@, Snapshot(positions[r], v2, forces[r]))]
    /\ steps' = [steps EXCEPT ![r] = @ + 1]
    /\ pc' = [pc EXCEPT ![r] = loop[r]]
    /\ UNCHANGED <<partVars, variant, masses, positions, forces, forces_local, loop,
                   ncoll, sendbuf, guiVars, defVars>>

\* line 83: comm.gather(..., root=0), called
GatherCall(r) ==
    /\ pc[r] = "gather"
    /\ Call(r, "gather", ZeroArray(N))
    /\ pc' = [pc EXCEPT ![r] = "gather_wait"]
    /\ UNCHANGED <<partVars, variant, masses, positions, velocities, forces,
                   forces_local, loop, steps, log, guiVars, defVars>>

\* line 83: the root returns when every rank has sent; the others once they
\* have handed over their own data
GatherReturn(r) ==
    /\ pc[r] = "gather_wait"
    /\ r # 0 \/ Matched(r)
    /\ pc' = [pc EXCEPT ![r] = "barrier"]
    /\ UNCHANGED <<partVars, variant, masses, positions, velocities, forces,
                   forces_local, loop, steps, ncoll, sendbuf, log, guiVars, defVars>>

\* line 92: comm.Barrier(), called
BarrierCall(r) ==
    /\ pc[r] = "barrier"
    /\ Call(r, "barrier", ZeroArray(N))
    /\ pc' = [pc EXCEPT ![r] = "barrier_wait"]
    /\ UNCHANGED <<partVars, variant, masses, positions, velocities, forces,
                   forces_local, loop, steps, log, guiVars, defVars>>

\* line 92: returns when every rank has entered the barrier
BarrierReturn(r) ==
    /\ pc[r] = "barrier_wait"
    /\ Matched(r)
    /\ pc' = [pc EXCEPT ![r] = "end"]
    /\ UNCHANGED <<partVars, variant, masses, positions, velocities, forces,
                   forces_local, loop, steps, ncoll, sendbuf, log, guiVars, defVars>>

----------------------------------------------------------------------------

NextMPI ==
    \/ \E r \in Ranks : ForcesFirst(r)
    \/ \E r \in Ranks : AllreduceReturn(r)
    \/ \E r \in Ranks : KickDriftForces(r)
    \/ \E r \in Ranks : KickSecond(r)
    \/ Bookkeep
    \/ PublishFpsLock
    \/ PublishFpsWrite
    \/ PublishPosLock
    \/ PublishPosWrite
    \/ GuiBuildSphere
    \/ GuiLock
    \/ GuiCopy
    \/ GuiRender
    \/ \E r \in Ranks : WarmLoop(r)
    \/ \E r \in Ranks : MeasLoop(r)
    \/ \E r \in Ranks : StepBegin(r)
    \/ \E r \in Ranks : StepEnd(r)
    \/ \E r \in Ranks : GatherCall(r)
    \/ \E r \in Ranks : GatherReturn(r)
    \/ \E r \in Ranks : BarrierCall(r)
    \/ \E r \in Ranks : BarrierReturn(r)

\* both distributed programs: a run is a run of one of them
SpecMPI == InitMPI /\ [][NextMPI]_vars

----------------------------------------------------------------------------
(* default-implementation.py: planets plus one rocket, single process.      *)
(* Times are in hours.  all_bodies = bodies + [rocket]: index N is the      *)
(* rocket.                                                                  *)

Phase(t0, dur, acc) == [start_time |-> t0, duration |-> dur, acceleration |-> acc]

\* the flight plan of the source (24 h + 6 h, 72 h + 4 h), and other plans:
\* none, back to back, overlapping, negative duration, not ordered, not on
\* the step grid, shorter than a step, starting at time 0
FlightPlans ==
    { <<Phase(24, 6, <<1, -10>>), Phase(72, 4, <<3, 2>>)>>,
      <<>>,
      <<Phase(4, 4, <<1, 0>>), Phase(8, 4, <<0, 1>>)>>,
      <<Phase(4, 6, <<1, 0>>), Phase(6, 6, <<0, 1>>)>>,
      <<Phase(4, -2, <<1, 0>>), Phase(8, 4, <<0, 1>>)>>,
      <<Phase(12, 4, <<1, 0>>), Phase(4, 4, <<0, 1>>)>>,
      <<Phase(3, 3, <<2, 1>>), Phase(9, 5, <<0, -1>>)>>,
      <<Phase(5, 1, <<1, 1>>), Phase(8, 2, <<1, 1>>)>>,
      <<Phase(0, 4, <<1, 0>>)>> }

\* bodies[0].velocity = -total_momentum / bodies[0].mass, the sum over bodies[1:]
SunRecoil(m, v, n) ==
    LET total_momentum == VSum([i \in Bodies(n - 1) |-> VScale(m[i + 1], v[i + 1])], n - 1)
    IN  [i \in Bodies(n) |-> IF i = 0 THEN VQuot(VScale(-1, total_momentum), m[0]) ELSE v[i]]

AllPos == [i \in 0 .. N |-> IF i = N THEN rocket.pos ELSE body_pos[i]]
AllMass == [i \in 0 .. N |-> IF i = N THEN rocket.mass ELSE body_mass[i]]

\* f * r_hat for one j # i: G * mi * mj / (r_mag * scale)**2 along r_vec / r_mag.
\* Only evaluated where r_mag > 0.
PairForceD(p, m, i, j) ==
    LET r_vec == VSub(p[j], p[i])
        r_mag == ISqrt(Dot(r_vec, r_vec))
    IN  VQuot(VQuot(VQuot(VScale(G * m[i] * m[j], r_vec), r_mag), r_mag * scale),
              r_mag * scale)

\* forces[i] over all j # i
DefaultForces(p, m, n) ==
    [i \in Bodies(n) |->
        VSum([j \in Bodies(n) |-> IF i = j THEN Zero ELSE PairForceD(p, m, i, j)], n)]

\* two distinct bodies at one place: r_mag = 0 and the division raises
\* ZeroDivisionError
DivisionByZero(p, n) == \E i, j \in Bodies(n) : i # j /\ p[i] = p[j]

InPhase(ph, t) == ph.start_time <= t /\ t < ph.start_time + ph.duration

PhaseOver(ph, t) == t >= ph.start_time + ph.duration

\* every phase whose interval holds t, whatever the cursor
ActivePhasesAll(plan, idx, t) == {k \in 0 .. Len(plan) - 1 : InPhase(plan[k + 1], t)}

\* the phases whose acceleration the step at time t adds, with the cursor at idx
ActivePhases(plan, idx, t) ==
    IF idx < Len(plan) /\ InPhase(plan[idx + 1], t) THEN {idx} ELSE {}

\* no floor at dry_mass
BurnNoFloor(mass, dur) == mass - Quot((InitialMass - DryMass) * dt, dur)

\* burn_rate = (initial_mass - dry_mass) / dur; max(mass - burn_rate * dt, dry_mass)
Burn(mass, dur) == Max(mass - Quot((InitialMass - DryMass) * dt, dur), DryMass)

RECURSIVE ThrustOf(_, _)
\* the sum of the accelerations of the phases in ks
ThrustOf(plan, ks) ==
    IF ks = {} THEN Zero
    ELSE LET k == CHOOSE x \in ks : TRUE
         IN  VAdd(plan[k + 1].acceleration, ThrustOf(plan, ks \ {k}))

RECURSIVE BurnAll(_, _, _)
BurnAll(plan, ks, mass) ==
    IF ks = {} THEN mass
    ELSE LET k == CHOOSE x \in ks : TRUE
         IN  BurnAll(plan, ks \ {k}, Burn(mass, plan[k + 1].duration))

\* the cursor after the step at time t
Advance(plan, idx, t) ==
    IF idx < Len(plan) /\ ~InPhase(plan[idx + 1], t) /\ PhaseOver(plan[idx + 1], t)
    THEN idx + 1
    ELSE idx

InitDefault ==
    /\ N \in 4 .. MaxBodies
    /\ body_mass = InitMasses(N)
    /\ \E lay \in Layouts :
          /\ body_pos = InitPositions(lay, N)
          /\ body_vel = SunRecoil(body_mass, RawVelocities(lay, N), N)
    /\ rocket = [pos |-> VAdd(body_pos[Earth], <<RocketOffset, 0>>),
                 velocity |-> body_vel[Earth],
                 mass |-> InitialMass]
    /\ flight_plan \in FlightPlans
    /\ flight_index = 0
    /\ time_passed = 0
    /\ rocket_acc = [grav |-> Zero, total |-> Zero]
    /\ status = "running"
    /\ burned = {}
    /\ ended = {}
    /\ size = 0 /\ counts = <<>> /\ starts = <<>> /\ ppc = "none"
    /\ variant = "default"
    /\ masses = <<>> /\ positions = <<>> /\ velocities = <<>> /\ forces = <<>>
    /\ forces_local = <<>> /\ pc = <<>> /\ loop = <<>> /\ steps = <<>>
    /\ ncoll = <<>> /\ sendbuf = <<>> /\ log = <<>>
    /\ lock = "free" /\ gui_pos = <<>> /\ gui_fps = 0 /\ steps_1s = 0
    /\ gpc = "none" /\ spheres = <<>> /\ pos_cp = <<>> /\ fps_now = 0
    /\ gui_pos_pub = 0 /\ gui_fps_pub = 0 /\ read_pub = <<0, 0, 0>>

\* lines 136-172: one pass of the main loop
DefaultStep ==
    /\ status = "running"
    /\ time_passed + dt <= MaxTime
    /\ time_passed' = time_passed + dt
    /\ IF DivisionByZero(AllPos, N + 1)
       THEN /\ status' = "crashed"
            /\ UNCHANGED <<body_pos, body_vel, rocket, flight_index, rocket_acc,
                           burned, ended>>
       ELSE LET f == DefaultForces(AllPos, AllMass, N + 1)
                vel == [i \in Bodies(N) |->
                           VAdd(body_vel[i], VScale(dt, VQuot(f[i], body_mass[i])))]
                grav == VQuot(f[N], rocket.mass)
                active == ActivePhases(flight_plan, flight_index, time_passed')
                total == VAdd(grav, ThrustOf(flight_plan, active))
                rvel == VAdd(rocket.velocity, VScale(dt, total))
            IN  /\ body_vel' = vel
                /\ body_pos' = [i \in Bodies(N) |->
                                   VAdd(body_pos[i], VQuot(VScale(dt, vel[i]), scale))]
                /\ rocket_acc' = [grav |-> grav, total |-> total]
                /\ rocket' = [pos |-> VAdd(rocket.pos, VQuot(VScale(dt, rvel), scale)),
                              velocity |-> rvel,
                              mass |-> BurnAll(flight_plan, active, rocket.mass)]
                /\ flight_index' = Advance(flight_plan, flight_index, time_passed')
                /\ burned' = active
                /\ ended' = ended \cup {k \in 0 .. Len(flight_plan) - 1 :
                                           PhaseOver(flight_plan[k + 1], time_passed')}
                /\ status' = status
    /\ UNCHANGED <<partVars, mpiVars, guiVars, body_mass, flight_plan>>

NextDefault == DefaultStep

SpecDefault == InitDefault /\ [][NextDefault]_vars

----------------------------------------------------------------------------
(* Claims *)

(* C1: for every N >= 1 and W >= 1 the ranges [starts[r], starts[r] +      *)
(* counts[r]) are contiguous, pairwise disjoint and cover [0, N) exactly   *)
(* once; the sizes sum to N, differ by at most 1, and exactly the first    *)
(* N mod W ranks hold the extra element.                                   *)
C1_PartitionExact ==
    ppc = "done" =>
        /\ LocalStart(0) = 0
        /\ \A r \in 0 .. size - 2 : LocalStop(r) = LocalStart(r + 1)
        /\ LocalStop(size - 1) = N
        /\ \A i \in 0 .. N - 1 : Cardinality({r \in 0 .. size - 1 : i \in Local(r)}) = 1
        /\ \A r \in 0 .. size - 1 : Local(r) \subseteq 0 .. N - 1
        /\ \A r \in 0 .. size - 1 : Cardinality(Local(r)) = counts[r]
        /\ SumTo(counts, size) = N
        /\ \A r, s \in 0 .. size - 1 : Abs(counts[r] - counts[s]) <= 1
        /\ {r \in 0 .. size - 1 : \E s \in 0 .. size - 1 : counts[r] > counts[s]}
              \in {{}, 0 .. (N % size) - 1}
        /\ {r \in 0 .. size - 1 : counts[r] = (N \div size) + 1} = 0 .. (N % size) - 1

\* a partition with uneven blocks
C1_Witness ==
    /\ ppc = "done"
    /\ N = 7
    /\ size = 3
    /\ counts = (0 :> 3 @@ 1 :> 2 @@ 2 :> 2)
    /\ starts = (0 :> 0 @@ 1 :> 3 @@ 2 :> 5)

\* a rank blocked inside a collective / a rank holding the result of one
Waiting == {"wait1", "wait2", "wait"}
Reduced == {"kick_drift", "kick2", "step_end"}

\* the force array of a single worker that owns all N rows
FullForces(p) == PartialForces(p, masses, 0, N, N)

(* C2: the element-wise sum over all workers of their partial force arrays  *)
(* (each fills only the rows of its own range, the other rows are zero)     *)
(* equals the force array a single worker owning all rows computes: what    *)
(* an Allreduce is about to deliver, and what a rank has received from it.  *)
C2_PartialSumsEqualFull ==
    \A r \in Ranks :
        /\ pc[r] \in Waiting =>
              \A i \in Bodies(N) : i \notin Local(r) => forces_local[r][i] = Zero
        /\ (pc[r] \in Waiting /\ Matched(r)) => ReduceSum(r) = FullForces(positions[r])
        /\ pc[r] \in Reduced => forces[r] = FullForces(positions[r])

\* two ranks, three bodies: rank 0 holds a sum with non-zero rows from both ranges
C2_Witness ==
    /\ variant = "mpi"
    /\ size = 2
    /\ N = 3
    /\ pc[0] = "kick_drift"
    /\ forces[0][0] # Zero
    /\ forces[0][2] # Zero

(* C3: a rank inside an Allreduce that some rank has not yet called stays   *)
(* blocked there, its arrays untouched; a rank that holds the result of a  *)
(* reduction (and is about to update velocities with it) holds it only     *)
(* when every rank has contributed to that reduction.                      *)
C3_ReductionIsBarrier ==
    [][\A r \in Ranks :
          /\ (pc[r] \in Waiting /\ \E s \in Ranks : ncoll[s] < ncoll[r]) =>
                /\ pc'[r] = pc[r]
                /\ velocities'[r] = velocities[r]
                /\ forces'[r] = forces[r]
          /\ pc'[r] \in Reduced => \A s \in Ranks : ncoll'[s] >= ncoll'[r]]_vars

\* rank 0 waits in the second Allreduce of an iteration that rank 1 has not called
C3_Witness ==
    /\ variant = "mpi"
    /\ size = 2
    /\ pc[0] = "wait2"
    /\ pc[1] = "kick_drift"
    /\ ncoll[1] < ncoll[0]

(* C4: any two ranks that have both completed step k held equal forces,    *)
(* positions and velocities arrays when they completed it.                 *)
C4_ReplicasAgree ==
    \A a, b \in Ranks :
        \A k \in 1 .. Len(log[a]) : k <= Len(log[b]) => log[a][k] = log[b][k]

\* two ranks have both completed two steps, and the second changed the state
C4_Witness ==
    /\ size = 2
    /\ N = 3
    /\ Len(log[0]) = 3
    /\ Len(log[1]) = 3
    /\ log[0][3] # log[0][2]
    /\ log[0][2] # log[0][1]

(* C5: each worker executes exactly one global sum reduction per step: at  *)
(* the top of its loop a rank has called as many Allreduces as it has      *)
(* completed steps.                                                        *)
C5_OneReductionPerStep ==
    \A r \in Ranks : pc[r] \in {"forces1", "bookkeep", "warm", "meas"} => ncoll[r] = steps[r]

AllVel == [i \in 0 .. N |-> IF i = N THEN rocket.velocity ELSE body_vel[i]]

HalfKickD(v, f, m, n) == [i \in Bodies(n) |-> VAdd(v[i], VQuot(VScale(dt, f[i]), 2 * m[i]))]

DriftD(p, v, n) == [i \in Bodies(n) |-> VAdd(p[i], VQuot(VScale(dt, v[i]), scale))]

(* C6: a time step is a velocity half-kick by 0.5*a_prev*DT, a position    *)
(* drift by v*DT, a force evaluation at the new positions and a second     *)
(* half-kick by 0.5*a_new*DT; stated for the planets of the single-process *)
(* loop in the steps that add no thrust.                                   *)
C6_KickDriftKick ==
    [][(status' = "running" /\ time_passed' # time_passed /\ burned' = {}) =>
          LET v1 == HalfKickD(AllVel, DefaultForces(AllPos, AllMass, N + 1), AllMass, N + 1)
              p1 == DriftD(AllPos, v1, N + 1)
          IN  ~DivisionByZero(p1, N + 1) =>
                 LET v2 == HalfKickD(v1, DefaultForces(p1, AllMass, N + 1), AllMass, N + 1)
                 IN  \A i \in Bodies(N) : body_pos'[i] = p1[i] /\ body_vel'[i] = v2[i]]_vars

\* the thrust acceleration the last step added to the rocket
Thrust(acc) == VSub(acc.total, acc.grav)

(* C7: the cursor flight_index never decreases; a step adds at most one    *)
(* phase's acceleration to the rocket; a phase k for which a step has been *)
(* executed with time_passed >= start_time + duration is never added in a  *)
(* later step.                                                             *)
C7_ThrustCursor ==
    [][/\ flight_index' >= flight_index
       /\ (status' = "running" /\ time_passed' # time_passed) =>
             /\ Cardinality(burned') <= 1
             /\ burned' \cap ended = {}
             /\ Thrust(rocket_acc') \in
                   {Zero} \cup {flight_plan[k + 1].acceleration : k \in burned'}
             /\ burned' = {} => Thrust(rocket_acc') = Zero]_vars

\* overlapping phases [4, 10) and [6, 12): a step inside both has added the
\* first one's acceleration
C7_Witness ==
    /\ Len(flight_plan) = 2
    /\ InPhase(flight_plan[1], time_passed)
    /\ InPhase(flight_plan[2], time_passed)
    /\ burned = {0}
    /\ Thrust(rocket_acc) = flight_plan[1].acceleration

(* C8: the rocket's mass never increases and never falls below dry_mass;   *)
(* in a step where the phase at the cursor is active it decreases by       *)
(* (initial_mass - dry_mass) / duration * DT, floored at dry_mass, and the *)
(* phase's acceleration is added; in every other step the mass is          *)
(* unchanged and no thrust acceleration is added.                          *)
C8_MassDepletion ==
    [][(status' = "running" /\ time_passed' # time_passed) =>
          LET act == /\ flight_index < Len(flight_plan)
                     /\ InPhase(flight_plan[flight_index + 1], time_passed')
              ph == flight_plan[flight_index + 1]
          IN  /\ rocket'.mass <= rocket.mass
              /\ rocket'.mass >= DryMass
              /\ act =>
                    /\ rocket'.mass =
                          Max(rocket.mass - Quot((InitialMass - DryMass) * dt, ph.duration),
                              DryMass)
                    /\ Thrust(rocket_acc') = ph.acceleration
              /\ ~act =>
                    /\ rocket'.mass = rocket.mass
                    /\ Thrust(rocket_acc') = Zero]_vars

\* the source's flight plan: the second phase has burned the mass down to the floor
C8_Witness ==
    /\ Len(flight_plan) = 2
    /\ flight_plan[1].start_time = 24
    /\ burned = {1}
    /\ rocket.mass = DryMass

(* C9: every read the GUI thread makes of the shared position buffer, the  *)
(* read that builds the sphere list included, returns the N rows of one    *)
(* completed step (or of the initial state), and a read never returns an   *)
(* older step than the read before it.                                     *)
C9_ReadsAreSnapshots ==
    /\ gpc \in {"rate", "copy", "render"} =>
          \E k \in 1 .. Len(log[0]) : \A i \in Bodies(N) : spheres[i + 1] = log[0][k].p[i]
    /\ gpc \in {"render"} => pos_cp = log[0][read_pub[1] + 1].p
    /\ read_pub[3] <= read_pub[1]

(* C10: a read never returns the throughput value of one publication with  *)
(* the positions of another.                                               *)
C10_PublicationAtomic == read_pub[1] = read_pub[2]

(* C11: neither side of the state channel blocks the other: the physics    *)
(* thread is never waiting to take the lock for a publication while the    *)
(* GUI thread holds it for a read (so no read delays the next integration  *)
(* step).                                                                  *)
C11_NeitherSideBlocks == ~(pc[0] \in {"lock_fps", "lock_pos"} /\ lock = "gui")

(* C12: when two distinct bodies occupy the same position, the force       *)
(* evaluation of the step completes without raising an error (the pair     *)
(* contributes zero); stated for the single-process loop: a step that      *)
(* starts with two coincident bodies leaves the loop running.              *)
C12_ZeroSeparationNoError ==
    [][(status = "running" /\ time_passed' # time_passed
           /\ DivisionByZero(AllPos, N + 1)) => status' = "running"]_vars

(* C13: with more workers than bodies (W > N) or with no bodies (N = 0)    *)
(* the distributed programs abort at startup: no worker calls a reduction  *)
(* or advances the bodies, and no worker runs with an empty index range.   *)
C13_MisconfigurationAborts ==
    (size > N \/ N = 0) =>
        \A r \in Ranks :
            /\ ncoll[r] = 0
            /\ steps[r] = 0
            /\ positions[r] = log[r][1].p
            /\ velocities[r] = log[r][1].v

\* a phase of negative duration / two phases whose intervals share a time
NegativeDuration(plan) == \E k \in 1 .. Len(plan) : plan[k].duration < 0
Overlapping(plan) ==
    \E j, k \in 1 .. Len(plan) :
        /\ j # k
        /\ plan[j].start_time < plan[k].start_time + plan[k].duration
        /\ plan[k].start_time < plan[j].start_time + plan[j].duration

(* C14: a thrust phase list with two overlapping phases or with a phase of *)
(* negative duration is rejected at load time: the simulation loop never   *)
(* executes a step with such a list.                                       *)
C14_BadPlanRejected ==
    (Overlapping(flight_plan) \/ NegativeDuration(flight_plan)) => time_passed = 0

\* sum of mass_i * velocity_i over the rows 0 .. n-1
TotalMomentum(m, v, n) == VSum([i \in Bodies(n) |-> VScale(m[i], v[i])], n)

(* C15: immediately after initialization and before the first step the     *)
(* total momentum over all bodies that take part in force evaluation, the  *)
(* rocket included, is zero: in integer arithmetic, smaller in each        *)
(* component than the divisor of the one division that computes the        *)
(* correction (the mass of body 0).                                        *)
C15_ZeroInitialMomentum ==
    (status = "running" /\ time_passed = 0) =>
        LET mom == TotalMomentum(AllMass, AllVel, N + 1)
        IN  Abs(mom[1]) < body_mass[0] /\ Abs(mom[2]) < body_mass[0]

\* positions of rank 0's physics thread outside the two publication blocks
Computing == {"forces1", "wait1", "kick_drift", "wait2", "kick2", "bookkeep",
              "lock_fps", "lock_pos"}

(* C16: the rank-0 lock is held only while copying into or out of the      *)
(* shared GUI buffers: the physics thread does not hold it while it        *)
(* computes partial forces, is inside an Allreduce or updates velocities   *)
(* and positions, and the GUI thread does not hold it while it builds the  *)
(* spheres, waits for the next frame or renders.                           *)
C16_LockOnlyDuringCopy ==
    variant = "mpi" =>
        /\ lock \in {"free", "physics", "gui"}
        /\ lock = "physics" <=> pc[0] \in {"write_fps", "write_pos"}
        /\ lock = "gui" <=> gpc = "copy"
        /\ pc[0] \in Computing => lock # "physics"
        /\ gpc \in {"build", "rate", "render"} => lock # "gui"

\* rank 0 is blocked in the second Allreduce of an iteration, which rank 1
\* has not called, while the GUI thread holds the lock for its copy
C16_Witness ==
    /\ variant = "mpi"
    /\ size = 2
    /\ pc[0] = "wait2"
    /\ ncoll[1] < ncoll[0]
    /\ lock = "gui"
    /\ gpc = "copy"
    /\ gui_pos_pub > 0

(* C17: in the benchmark all ranks make the same sequence of collectives   *)
(* (one Allreduce per step, then the gather, then the Barrier): whenever   *)
(* two ranks have both made their k-th collective call, the two calls are  *)
(* the same operation, so no rank waits in a collective that another rank  *)
(* never enters.                                                           *)
C17_SameCollectives ==
    variant = "bench" =>
        \A r, s \in Ranks :
            (ncoll[r] > 0 /\ ncoll[s] >= ncoll[r] /\ ncoll[s] - ncoll[r] <= 2) =>
                sendbuf[s][Slot(ncoll[r])].op = sendbuf[r][Slot(ncoll[r])].op

(* C18: at the start of every step, the first one included, the force      *)
(* array the first velocity half-kick is about to use equals the reduced   *)
(* gravitational force at the bodies' current (pre-drift) positions, in    *)
(* both distributed programs.                                              *)
C18_FirstKickUsesCurrentForces ==
    \A r \in Ranks : pc[r] \in {"kick_drift", "step"} => forces[r] = FullForces(positions[r])

\* phases in the order of their start times
Ordered(plan) ==
    \A j, k \in 1 .. Len(plan) : j < k => plan[j].start_time <= plan[k].start_time

(* C19: for a phase list that is ordered by start_time and non-overlapping *)
(* (phases that start exactly when the previous one ends included), every  *)
(* executed step whose time_passed lies in [start_time, start_time +       *)
(* duration) of a phase j adds phase j's acceleration to the rocket's      *)
(* acceleration and depletes the rocket's mass.                            *)
C19_NoPhaseStepSkipped ==
    [][(/\ status' = "running"
        /\ time_passed' # time_passed
        /\ Ordered(flight_plan)
        /\ ~Overlapping(flight_plan)
        /\ ~NegativeDuration(flight_plan)) =>
          \A j \in 0 .. Len(flight_plan) - 1 :
              InPhase(flight_plan[j + 1], time_passed') =>
                  /\ j \in burned'
                  /\ Thrust(rocket_acc') = flight_plan[j + 1].acceleration
                  /\ rocket'.mass = Burn(rocket.mass, flight_plan[j + 1].duration)]_vars

====
